---- MODULE Spec2Model ----
(***************************************************************************)
(* rescape-validate: the validating function wrapper v                     *)
(* (src/src/functionValidator.js, 171-235), the engine validateItems /     *)
(* validateItemsResult (src/unnamed/part_002, 44-132) and the scope merge  *)
(* validator vMergeScope / validateProp (src/unnamed/part_002, 175-243).   *)
(*                                                                         *)
(* Texts (error messages, JSON) are sequences of string tokens; joining    *)
(* texts is sequence concatenation.                                        *)
(***************************************************************************)
EXTENDS Integers, Sequences, FiniteSets, TLC

VARIABLES
    pc,             \* "idle" | "collecting" | "done" | "expected" | "failed" | "merged again"
    op,             \* "none" | "v" | "vMergeScope": the entry point in use
    func,           \* the wrapped function: [name, length, returns]
    expectedItems,  \* the named expectations given to v: Seq of <<name, types>>
    received,       \* arguments the curried stage has collected so far
    supplied,       \* every argument passed to the wrapper, in order, over all calls
    calls,          \* number of calls that passed arguments to the wrapper or a stage
    funcCalls,      \* number of times func (or the merge function) was invoked
    itemChecks,     \* number of times an item validator was applied to an item
    scope,          \* vMergeScope's scope: Seq of <<key, value>>, keys in R.keys order
    objct,          \* vMergeScope's object: a function from its own keys to values
    given,          \* scope and objct as they were when vMergeScope was called
    propTypes,      \* vProps' expected shape: Seq of <<name, propType>> as declared
    props,          \* vProps' object: a function from PropNames to values
    extracted,      \* what expectValidationError did with the last call
    invocations,    \* the invocations in progress on one wrapper, when interleaved
    outcome         \* what the last completed call did

vars == <<pc, op, func, expectedItems, received, supplied, calls, funcCalls, itemChecks,
          scope, objct, given, propTypes, props, extracted, invocations, outcome>>

-----------------------------------------------------------------------------
(* Bounds *)

MaxArity == 2       \* largest func.length wrapped
MaxArgs == 3        \* most arguments passed to one wrapper, over all its calls
MaxProps == 2       \* most properties named in an expected shape

\* The longest expectedItems list: one more than the largest arity.
MaxExpected == MaxArity + 1

-----------------------------------------------------------------------------
(* JavaScript values.  kind is the runtime kind; n is the number of a      *)
(* Number, or the id of an object whose idk is "num"; idk says whether an  *)
(* object has an id property ("absent" | "nil" | "num"); cyc marks an      *)
(* object that contains a reference to itself.                             *)

Undefined == [kind |-> "undefined", n |-> 0, idk |-> "absent", cyc |-> FALSE]
Null      == [kind |-> "null",      n |-> 0, idk |-> "absent", cyc |-> FALSE]
Str       == [kind |-> "String",    n |-> 0, idk |-> "absent", cyc |-> FALSE]
Num(i)    == [kind |-> "Number",    n |-> i, idk |-> "absent", cyc |-> FALSE]
Obj       == [kind |-> "Object",    n |-> 0, idk |-> "absent", cyc |-> FALSE]
ObjId(i)  == [kind |-> "Object",    n |-> i, idk |-> "num",    cyc |-> FALSE]
ObjNilId  == [kind |-> "Object",    n |-> 0, idk |-> "nil",    cyc |-> FALSE]
Cyclic    == [kind |-> "Object",    n |-> 0, idk |-> "absent", cyc |-> TRUE]
\* The object {a: 'x; y'}, whose JSON holds a semicolon followed by a space.
ObjSemi   == [kind |-> "Object",    n |-> 1, idk |-> "absent", cyc |-> FALSE]

\* The actual arguments tried on a wrapped function.
ArgValues == {Null, Str, ObjSemi, Cyclic}

\* An expectation, the second member of an expectedItems pair, is any value:
\* array says it is an Array and types names the constructors it holds; fn
\* says it is a function, and then kind, required and returns say what the
\* function does (see Prop types below).
TypeArray(types) ==
    [array |-> TRUE, types |-> types, fn |-> FALSE, kind |-> "none", required |-> FALSE,
     returns |-> "none"]

\* The allowed-type arrays tried as expectations (arrays of constructors).
TypeSets == {TypeArray(<<"String">>), TypeArray(<<"Object", "String">>)}

\* The argument names, by position.
ArgNames == <<"type", "ret", "obj", "extra", "more">>

\* The most parameters R.curryN gives a function (Ramda's _arity).
CurryLimit == 10

\* The functions tried: func.length and whether the body returns a value.
\* One has more declared parameters than R.curryN supports.
Funcs ==
    [name : {"func"}, length : (1..MaxArity) \cup {CurryLimit + 1},
     returns : {"value", "undefined"}]

\* The expectation lists tried: position i is named ArgNames[i].
ExpectedItemsOf(types) == [i \in 1..Len(types) |-> <<ArgNames[i], types[i]>>]

RECURSIVE SeqsOf(_, _)
SeqsOf(S, n) ==
    IF n = 0 THEN {<<>>}
    ELSE LET shorter == SeqsOf(S, n - 1)
         IN  shorter \cup {Append(s, x) : s \in {t \in shorter : Len(t) = n - 1}, x \in S}

-----------------------------------------------------------------------------
(* Objects for vMergeScope: a function from ObjKeys to a value, Absent     *)
(* where the object has no such own property.                              *)

Absent == [kind |-> "absent", n |-> 0, idk |-> "absent", cyc |-> FALSE]

ObjKeys == {"aardvark", "user", "project"}

\* Own keys in the order JSON.stringify and R.keys list them.
KeyOrder == <<"aardvark", "user", "project">>

EmptyObject == [k \in ObjKeys |-> Absent]

\* o[key]: undefined for a missing property.
Get(o, key) == IF key \notin DOMAIN o \/ o[key] = Absent THEN Undefined ELSE o[key]

OwnKeys(o) == {k \in ObjKeys : o[k] # Absent}

-----------------------------------------------------------------------------
(* Texts *)

RECURSIVE Join(_, _)
\* R.join(sep, texts) over texts that are token sequences.
Join(texts, sep) ==
    IF texts = <<>> THEN <<>>
    ELSE IF Len(texts) = 1 THEN Head(texts)
    ELSE Head(texts) \o <<sep>> \o Join(Tail(texts), sep)

\* JSON.stringify throws TypeError on a circular structure.
JSONThrows(val) == val.cyc

\* JSON.stringify(val, null, 2) as interpolated into a template string.
JSONstringify(val) ==
    CASE val.kind = "undefined" -> <<"undefined">>
      [] val.kind = "null" -> <<"null">>
      [] val.kind = "String" -> <<"\"FOO\"">>
      [] val.kind = "Number" -> <<ToString(val.n)>>
      [] val.kind = "Object" /\ val.idk = "num" -> <<"{\"id\": ", ToString(val.n), "}">>
      [] val.kind = "Object" /\ val.idk = "nil" -> <<"{\"id\": null}">>
      [] val.kind = "Object" /\ val.idk = "absent" /\ val.n = 1 -> <<"{\"a\": \"x", "; ", "y\"}">>
      [] OTHER -> <<"{}">>

\* util.inspect(a) of the argument array: never throws, prints [Circular].
Inspect(a) ==
    <<"[ ">> \o Join([i \in 1..Len(a) |->
                        IF a[i].cyc THEN <<"[Circular]">> ELSE JSONstringify(a[i])], ", ")
             \o <<" ]">>

\* JSON.stringify(expectedItems, null, 2): a function, in an array, serialises
\* as null, be it a constructor or a predicate.
ExpectedItemsJSON(items) ==
    <<"[">> \o Join([i \in 1..Len(items) |->
                       <<"[\"", items[i][1], "\", ">>
                       \o (IF items[i][2].array
                           THEN <<"[">>
                                \o Join([j \in 1..Len(items[i][2].types) |-> <<"null">>], ", ")
                                \o <<"]">>
                           ELSE IF items[i][2].fn THEN <<"null">> ELSE <<"\"String\"">>)
                       \o <<"]">>], ", ")
            \o <<"]">>

\* The stack of a captured Error, as it appears in a message.
Stack == "<stack>"

-----------------------------------------------------------------------------
(* Validation (ramda-fantasy-validation) and Result (folktale)             *)

\* What a function call returns: defined is FALSE for undefined; args holds
\* the arguments a user function echoes, object the object a merge returns;
\* ref says which object it is: "fresh" for one created by the call.
NoResult == [defined |-> FALSE, args |-> <<>>, object |-> EmptyObject, ref |-> "none"]

\* Validation.of(x)
Success(x) == [isSuccess |-> TRUE, value |-> x, failures |-> <<>>]
\* Validation.failure(ds)
Failure(ds) == [isSuccess |-> FALSE, value |-> NoResult, failures |-> ds]

\* A failure descriptor.  hasTypes: the descriptor has a types property.
Descriptor(hasTypes, funcName, name, types, actual, message, obj, expected) ==
    [hasTypes |-> hasTypes, funcName |-> funcName, name |-> name, types |-> types,
     actual |-> actual, message |-> message, obj |-> obj, expected |-> expected]

\* {message, error: new Error(message)}
MessageDescriptor(message) ==
    Descriptor(FALSE, "", "", <<>>, Undefined, message, EmptyObject, Undefined)

\* A merge in which the object's own properties win.
MergeRight_LeftWins(l, pairs) ==
    [k \in ObjKeys |->
        IF l[k] = Absent /\ \E i \in 1..Len(pairs) : pairs[i][1] = k
        THEN (CHOOSE p \in {pairs[i] : i \in 1..Len(pairs)} : p[1] = k)[2]
        ELSE l[k]]

\* R.mergeRight(l, r) with r given as pairs: r's keys win.
MergeRight(l, pairs) ==
    [k \in ObjKeys |->
        IF \E i \in 1..Len(pairs) : pairs[i][1] = k
        THEN (CHOOSE p \in {pairs[i] : i \in 1..Len(pairs)} : p[1] = k)[2]
        ELSE l[k]]

\* A merge that assigns the right operand's properties into the left one.
MergeRightLeft_Assigned(l, pairs) == MergeRight(l, pairs)

\* The left operand after R.mergeRight(l, r) has run: R.mergeRight copies
\* both operands into a new object and writes to neither.
MergeRightLeft(l, pairs) == l

\* Calling func with the validated arguments: the value it returns.  A user
\* function echoes its arguments or returns undefined; vMergeScope's merge
\* function ignores them and returns R.mergeRight(objct, scope); vProps'
\* function ignores them and returns props.
FuncApply(f, args) ==
    CASE f.returns = "value" ->
            [defined |-> TRUE, args |-> args, object |-> EmptyObject, ref |-> "fresh"]
      [] f.returns = "merge" ->
            [defined |-> TRUE, args |-> <<>>, object |-> MergeRight(f.objct, f.scope),
             ref |-> "fresh"]
      [] f.returns = "props" ->
            [defined |-> TRUE, args |-> <<>>, object |-> f.props, ref |-> "props"]
      [] OTHER -> NoResult

-----------------------------------------------------------------------------
(* Item validators *)

\* A test by typeof, under which null is an object.
R_is_Typeof(type, val) == val.kind = type \/ (type = "Object" /\ val.kind = "null")

\* A test under which a missing value is an instance of every type.
R_is_NilPasses(type, val) == val.kind \in {"undefined", "null"} \/ val.kind = type

\* R.is(Ctor, val): null and undefined are instances of nothing.
R_is(type, val) == val.kind \notin {"undefined", "null"} /\ val.kind = type

\* No reduction to the id.
PropOrId_Raw(actual) == actual

\* R.propOr(actual, 'id', actual): the id of a value that has a non-nil id,
\* else the value itself.
PropOrId(actual) == IF actual.kind = "Object" /\ actual.idk = "num" THEN Num(actual.n) ELSE actual

\* A test that lets only undefined through.
IsNil_OnlyUndefined(val) == val.kind = "undefined"

\* R.isNil
IsNil(val) == val.kind \in {"undefined", "null"}

\* A comparison that nothing passes, leaving the test to R.isNil alone.
R_equals_Nothing(expected, val) == FALSE

\* R.equals(expected)
R_equals(expected, val) == val = expected

\* validateProp(obj, prop, expected, actual)
validateProp(obj, prop, expected, actual) ==
    LET val == PropOrId(actual)
    IN  IF IsNil(val) \/ R_equals(expected, val)
        THEN Success(val)
        ELSE Failure(<<Descriptor(FALSE, "", prop, <<>>, val,
                                  <<"Validation error">>, obj, expected)>>)

-----------------------------------------------------------------------------
(* Prop types (propTypesValidator).  A propType is what an expected shape   *)
(* holds under a name: a PropTypes checker for one kind, optional or        *)
(* required, or a value that is not a function.                             *)

PropNames == {"1", "age", "name"}

\* The names that are array indices, in ascending numeric order.
IndexKeys == <<"1">>
IsIndexKey(k) == \E i \in 1..Len(IndexKeys) : IndexKeys[i] = k

NoProps == [k \in PropNames |-> Absent]

\* PropTypes.string, PropTypes.number.isRequired: returns is "check" for a
\* checker of prop-types.
PropTypeString ==
    [array |-> FALSE, types |-> <<>>, fn |-> TRUE, kind |-> "String", required |-> FALSE,
     returns |-> "check"]
PropTypeNumberRequired ==
    [array |-> FALSE, types |-> <<>>, fn |-> TRUE, kind |-> "Number", required |-> TRUE,
     returns |-> "check"]
\* The string 'String', given where a function is expected.
NotAFunction ==
    [array |-> FALSE, types |-> <<>>, fn |-> FALSE, kind |-> "none", required |-> FALSE,
     returns |-> "none"]
\* The hand-written predicate (props, propName) => props[propName], which
\* returns the value it is asked about.
EchoPredicate ==
    [array |-> FALSE, types |-> <<>>, fn |-> TRUE, kind |-> "none", required |-> FALSE,
     returns |-> "value"]

PropTypes == {PropTypeString, PropTypeNumberRequired, NotAFunction}

\* R.toPairs(expectedItems): own properties in for-in order, the index-like
\* names first in ascending order, then the other names as declared.
ToPairs(shape) ==
    LET idx == SelectSeq(IndexKeys, LAMBDA k : \E i \in 1..Len(shape) : shape[i][1] = k)
        rest == SelectSeq(shape, LAMBDA p : ~IsIndexKey(p[1]))
    IN  [i \in 1..Len(idx) |-> shape[CHOOSE j \in 1..Len(shape) : shape[j][1] = idx[i]]]
        \o rest

\* prop-types' name of a value's type.
TypeName(val) ==
    CASE val.kind = "String" -> "string"
      [] val.kind = "Number" -> "number"
      [] OTHER -> "object"

\* A checker that takes every property as required.
PropTypeCheck_AllRequired(propType, prps, propName, componentName) ==
    LET val == Get(prps, propName)
    IN  IF IsNil(val) \/ val.kind # propType.kind
        THEN [kind |-> "Error", message |-> <<"Invalid location ", propName, "">>]
        ELSE [kind |-> "null", message |-> <<>>]

\* propType(props, propName, componentName, 'location', null, secret): what
\* the predicate returns, as its kind ("Error" for an instance of Error) and
\* its message property.  A PropTypes checker returns an Error for a nil
\* value of a required property or a value of another type, else null.  (The
\* messages are prop-types' without the quotes it puts around the names.)
PropTypeCheck(propType, prps, propName, componentName) ==
    LET val == Get(prps, propName)
    IN  IF propType.returns = "value"
        THEN [kind |-> val.kind, message |-> <<>>]
        ELSE IF IsNil(val)
        THEN IF propType.required
             THEN [kind |-> "Error",
                   message |-> <<"The location ", propName, " is marked as required in ",
                                 componentName, ", but its value is ", val.kind, ".">>]
             ELSE [kind |-> "null", message |-> <<>>]
        ELSE IF val.kind # propType.kind
        THEN [kind |-> "Error",
              message |-> <<"Invalid location ", propName, " of type ", TypeName(val),
                            " supplied to ", componentName, ", expected ",
                            TypeName([kind |-> propType.kind]), ".">>]
        ELSE [kind |-> "null", message |-> <<>>]

\* A test taking every value that is not nil for an error.
InstanceOfError_Truthy(val) == val.kind \notin {"undefined", "null"}

\* propTypeError instanceof Error
InstanceOfError(val) == val.kind = "Error"

\* {componentName, propName, propType, error}
PropDescriptor(componentName, propName, message) ==
    Descriptor(FALSE, componentName, propName, <<>>, Undefined, message, EmptyObject, Undefined)

\* validatePropType(componentName, propName, propType, props): Validation.of()
\* on success carries no value.
validatePropType(componentName, propName, propType, prps) ==
    IF ~propType.fn
    THEN Failure(<<PropDescriptor(componentName, propName,
                                  <<"TypeChecker should be a function">>)>>)
    ELSE LET propTypeError == PropTypeCheck(propType, prps, propName, componentName)
         IN  IF InstanceOfError(propTypeError)
             THEN Failure(<<PropDescriptor(componentName, propName, propTypeError.message)>>)
             ELSE Success(Undefined)

\* The object {[name]: actual}.
Singleton(name, actual) == [k \in {name} |-> actual]

\* A mapping that keeps what the predicate's Validation carries.
MapToActual_KeepsValue(validation, actual) == validation

\* validation.map(_ => actual): a Success carries actual instead of what it
\* carried; a Failure is left as it is.
MapToActual(validation, actual) ==
    IF validation.isSuccess THEN Success(actual) ELSE validation

\* A wrapping that hands the predicate the actual value itself as props.
PredicateProps_Unwrapped(name, actual) == [k \in {name} |-> Undefined]

\* The props vPropOfFunction hands to the predicate.
PredicateProps(name, actual) == Singleton(name, actual)

\* vPropOfFunction(propType, funcName, name, actual)
vPropOfFunction(propType, funcName, name, actual) ==
    MapToActual(validatePropType(funcName, name, propType, PredicateProps(name, actual)),
                actual)

\* An array test that takes everything that is not a function for an array.
IsArray_NotFunction(val) == ~val.fn

\* R.is(Array)
IsArray(val) == val.array

\* validateArgument(funcName, name, typesOrPropType, actual).  For an array
\* of types: Success(actual) iff actual is an instance of one of the types,
\* else a Failure of one descriptor.  For anything else: vPropOfFunction.
validateArgument(funcName, name, typesOrPropType, actual) ==
    IF IsArray(typesOrPropType)
    THEN LET types == typesOrPropType.types
         IN  IF \E i \in 1..Len(types) : R_is(types[i], actual)
             THEN Success(actual)
             ELSE Failure(<<Descriptor(TRUE, funcName, name, types, actual,
                                       <<"Validation error">>, EmptyObject, Undefined)>>)
    ELSE vPropOfFunction(typesOrPropType, funcName, name, actual)

\* The itemValidator handed to validateItems, applied to one item.
ItemValidator(which, descriptor, expectedKey, expectedValue, actual) ==
    IF which = "validateProp"
    THEN validateProp(descriptor, expectedKey, expectedValue, actual)
    ELSE validateArgument(descriptor, expectedKey, expectedValue, actual)

-----------------------------------------------------------------------------
(* The engine: validateItems and validateItemsResult *)

\* Ap with the applied argument put before the earlier ones.
Ap_Prepends(acc, item) ==
    IF acc.isSuccess
    THEN IF item.isSuccess THEN Success(<<item.value>> \o acc.value) ELSE item
    ELSE IF item.isSuccess THEN acc ELSE Failure(acc.failures \o item.failures)

\* Ap keeping the first failure and dropping the later ones.
Ap_FirstFailureOnly(acc, item) ==
    IF acc.isSuccess
    THEN IF item.isSuccess THEN Success(Append(acc.value, item.value)) ELSE item
    ELSE acc

\* Validation's ap: failures concatenate in order, a failure absorbs successes.
\* The accumulator's value is the list of arguments applied so far.
Ap(acc, item) ==
    IF acc.isSuccess
    THEN IF item.isSuccess THEN Success(Append(acc.value, item.value)) ELSE item
    ELSE IF item.isSuccess THEN acc ELSE Failure(acc.failures \o item.failures)

RECURSIVE ApAll(_, _)
ApAll(acc, items) ==
    IF items = <<>> THEN acc ELSE ApAll(Ap(acc, Head(items)), Tail(items))

\* A lift that looks at the first item outcome only.
LiftAN_FirstItemOnly(f, items) ==
    LET folded == ApAll(Success(<<>>), items)
    IN  IF items[1].isSuccess
        THEN [validation |-> IF folded.isSuccess THEN Success(FuncApply(f, folded.value))
                             ELSE folded,
              invoked |-> 1]
        ELSE [validation |-> folded, invoked |-> 0]

\* A lift that looks at the last item outcome only.
LiftAN_LastItemOnly(f, items) ==
    LET folded == ApAll(Success(<<>>), items)
    IN  IF items[Len(items)].isSuccess
        THEN [validation |-> IF folded.isSuccess THEN Success(FuncApply(f, folded.value))
                             ELSE folded,
              invoked |-> 1]
        ELSE [validation |-> folded, invoked |-> 0]

\* A lift that calls func whatever the item outcomes are.
LiftAN_AlwaysInvokes(f, items) ==
    LET folded == ApAll(Success(<<>>), items)
    IN  [validation |-> IF folded.isSuccess THEN Success(FuncApply(f, folded.value)) ELSE folded,
         invoked |-> 1]

\* Validation.liftAN(len, func) applied to the item outcomes: func is called
\* iff every outcome is a Success; invoked counts that call.
LiftAN(f, items) ==
    LET folded == ApAll(Success(<<>>), items)
    IN  IF folded.isSuccess
        THEN [validation |-> Success(FuncApply(f, folded.value)), invoked |-> 1]
        ELSE [validation |-> folded, invoked |-> 0]

\* `For function ... wrong number of arguments ...`
WrongNumberMessage(descriptor, expected, a) ==
    <<"For function ", descriptor, " wrong number of arguments ", ToString(Len(a)),
      " provided. Expected ", ToString(Len(expected)), ". Args provided: ">> \o Inspect(a)

\* `For function ... unacceptable undefined returned value ...`
UndefinedMessage(descriptor) ==
    <<"For function ", descriptor, " unacceptable undefined returned value ", "{}">>

\* `Function ...: argument length ... is not matched by validators' length ...`
MismatchMessage(f, descriptor, expected) ==
    <<"Function ", (IF f.name # "" THEN f.name ELSE descriptor), ": argument length ",
      ToString(f.length), " and/or expectedItems length ", ToString(Len(expected)),
      " is not matched by validators' length ", ToString(Len(expected)), ":\n">>
    \o ExpectedItemsJSON(expected) \o <<")">>

\* The predicate without its comparison with func's arity.
LengthsMatch_IgnoresArity(f, expected, itemsLength) == Len(expected) = itemsLength

\* The R.ifElse predicate choosing the validator.
LengthsMatch(f, expected, itemsLength) == f.length = itemsLength /\ Len(expected) = itemsLength

\* The test letting surplus arguments through.
WrongNumber_OnlyMissing(a, expected) == Len(a) < Len(expected)

\* The wrong-number-of-arguments test on the actual arguments.
WrongNumber(a, expected) == Len(a) # Len(expected)

\* The test looking at the Validation instead of its value.
ValueUndefined_OfContainer(sf) == sf.isSuccess /\ FALSE

\* typeof successFailure.value === 'undefined' (a Failure's value is its array).
ValueUndefined(sf) == sf.isSuccess /\ ~sf.value.defined

\* validateItems(func, expectedItems, itemValidator, descriptor)(...a).
\* which names the itemValidator; nameOf is `${descriptor}`, the descriptor as
\* the messages interpolate it.  checked counts the items the itemValidator
\* was applied to.
validateItems(f, expected, which, descriptor, nameOf, a) ==
    IF LengthsMatch(f, expected, Len(expected))
    THEN IF WrongNumber(a, expected)
         THEN [validation |-> Failure(<<MessageDescriptor(WrongNumberMessage(nameOf, expected, a))>>),
               invoked |-> 0, checked |-> 0]
         ELSE LET items == [i \in 1..Len(expected) |->
                              ItemValidator(which, descriptor, expected[i][1], expected[i][2], a[i])]
                  successFailure == LiftAN(f, items)
              IN  IF ValueUndefined(successFailure.validation)
                  THEN [validation |-> Failure(<<MessageDescriptor(UndefinedMessage(nameOf))>>),
                        invoked |-> successFailure.invoked, checked |-> Len(items)]
                  ELSE [validation |-> successFailure.validation,
                        invoked |-> successFailure.invoked, checked |-> Len(items)]
    ELSE [validation |-> Failure(<<MessageDescriptor(MismatchMessage(f, nameOf, expected))>>),
          invoked |-> 0, checked |-> 0]

\* A stage that runs the wrapped function at the first call.
CurrySaturated_AtOnce(length, combined) == TRUE

\* A stage that forgets the arguments of the earlier calls.
CurryCombine_KeepsLast(held, args) == args

\* R.curryN: the arguments a stage holds after a call.
CurryCombine(held, args) == held \o args

\* R.curryN: the wrapped function runs once no argument is left to wait for.
CurrySaturated(length, combined) == length - Len(combined) <= 0

\* validateItemsResult(...)(...args): curried on func.length, then the
\* Validation folded into Result.Ok | Result.Error.
validateItemsResult(f, expected, which, descriptor, nameOf, args) ==
    IF CurrySaturated(f.length, args)
    THEN LET r == validateItems(f, expected, which, descriptor, nameOf, args)
         IN  [tag |-> IF r.validation.isSuccess THEN "Ok" ELSE "Error",
              value |-> r.validation.value, errors |-> r.validation.failures,
              invoked |-> r.invoked, checked |-> r.checked]
    ELSE [tag |-> "Function", value |-> NoResult, errors |-> <<>>, invoked |-> 0,
          checked |-> 0]

-----------------------------------------------------------------------------
(* The Result/exception boundary *)

\* v's renderer of one failure descriptor.
RenderArgument(d) ==
    IF d.hasTypes
    THEN <<"Function ", d.funcName, ", Requires ", d.name, " as one of ">>
         \o Join([i \in 1..Len(d.types) |-> <<d.types[i]>>], ", ")
         \o <<", but got ">> \o JSONstringify(d.actual) \o <<", Stack: ", Stack>>
    ELSE <<"Error: ">> \o d.message \o <<", Stack: ", Stack>>

\* JSON.stringify of an object of vMergeScope: its own properties in order;
\* a property whose value is undefined is left out.
ObjectJSON(o) ==
    LET shown == SelectSeq(KeyOrder, LAMBDA k : o[k] \notin {Absent, Undefined})
    IN  <<"{">> \o Join([i \in 1..Len(shown) |->
                           <<"\"", shown[i], "\": ">> \o JSONstringify(o[shown[i]])], ", ")
                \o <<"}">>

\* vMergeScope's renderer of one failure descriptor.
RenderProp(d) ==
    ObjectJSON(d.obj) \o <<", Requires ", d.name, " to equal ">> \o JSONstringify(d.expected)
    \o <<", but got ">> \o JSONstringify(d.actual) \o <<", Stack: ", Stack>>

\* Whether rendering the descriptor throws instead of producing a text.
RenderThrows(which, d) ==
    IF which = "validateProp"
    THEN (\E k \in ObjKeys : JSONThrows(d.obj[k])) \/ JSONThrows(d.expected) \/ JSONThrows(d.actual)
    ELSE d.hasTypes /\ JSONThrows(d.actual)

\* vProps' renderer of one failure descriptor (componentName is the one the
\* descriptor was built with).
RenderPropType(d) ==
    <<"Failed ", d.name, " for ", d.funcName, " type: ">> \o d.message \o <<" Stack: ", Stack>>

Render(which, d) ==
    CASE which = "validateProp" -> RenderProp(d)
      [] which = "validatePropType" -> RenderPropType(d)
      [] OTHER -> RenderArgument(d)

NoOutcome == [status |-> "none", value |-> NoResult, failures |-> <<>>, message |-> <<>>]

\* result => result.unsafeGet() after mappedThrowIfResultError(render): the
\* Ok value is returned; an Error's descriptors are rendered and thrown as
\* one Error whose message joins the texts with '; '.  A renderer that throws
\* lets its own exception escape.
Boundary(which, result) ==
    IF result.tag = "Ok"
    THEN [status |-> "returned", value |-> result.value, failures |-> <<>>, message |-> <<>>]
    ELSE IF \E i \in 1..Len(result.errors) : RenderThrows(which, result.errors[i])
    THEN [status |-> "TypeError", value |-> NoResult, failures |-> <<>>,
          message |-> <<"Converting circular structure to JSON">>]
    ELSE LET texts == [i \in 1..Len(result.errors) |-> Render(which, result.errors[i])]
         IN  [status |-> "raised", value |-> NoResult, failures |-> texts,
              message |-> Join(texts, "; ")]

\* The function v curries: validate, then unwrap or throw.
vComposed(f, expected, functionName, args) ==
    LET result == validateItemsResult(f, expected, "validateArgument", functionName,
                                      functionName, args)
    IN  [outcome |-> Boundary("validateArgument", result), invoked |-> result.invoked,
         checked |-> result.checked]

\* R.keys(scope), toPairs(scope) and toValues(objct)
Keys(sc) == [i \in 1..Len(sc) |-> sc[i][1]]

\* The values of the scope keys the object has, leaving out the others.
ToValues_OwnOnly(o, keys) ==
    LET own == SelectSeq(keys, LAMBDA k : k \in DOMAIN o /\ o[k] # Absent)
    IN  [i \in 1..Len(own) |-> o[own[i]]]

ToValues(o, keys) == [i \in 1..Len(keys) |-> Get(o, keys[i])]

\* R.curryN(ln, () => R.mergeRight(objct, scope))
MergeFunction(sc, o) ==
    [name |-> "", length |-> Len(Keys(sc)), returns |-> "merge", objct |-> o, scope |-> sc]

\* What escapes when R.curryN is asked for more than ten parameters.
CurryError ==
    [status |-> "raised", value |-> NoResult, failures |-> <<>>,
     message |-> <<"First argument to _arity must be a non-negative ",
                   "integer no greater than ten">>]

\* R.curryN(ln, ...) throws for a length above ten.
CurryRaises(ln) == ln > CurryLimit

\* vMergeScope(scope, objct): the merge function is built, by R.curryN, before
\* anything is validated.
vMergeScope(sc, o) ==
    IF CurryRaises(MergeFunction(sc, o).length)
    THEN [outcome |-> CurryError, invoked |-> 0, checked |-> 0, objct |-> o, scope |-> sc]
    ELSE
    LET actualValues == ToValues(o, Keys(sc))
        result == validateItemsResult(MergeFunction(sc, o), sc, "validateProp", o,
                                      "[object Object]", actualValues)
    IN  [outcome |-> Boundary("validateProp", result), invoked |-> result.invoked,
         checked |-> result.checked,
         objct |-> IF result.invoked = 1 THEN MergeRightLeft(o, sc) ELSE o,
         scope |-> sc]

\* R.curryN(length, () => props)
PropsFunction(prps, length) ==
    [name |-> "", length |-> length, returns |-> "props", props |-> prps]

\* validateObject(itemValidator, componentName, expectedItems, props): every
\* pair of the shape is validated against the whole props, and the outcomes
\* are lifted over the function returning props.
validateObject(componentName, expected, prps) ==
    LET pairs == ToPairs(expected)
        items == [i \in 1..Len(pairs) |->
                    validatePropType(componentName, pairs[i][1], pairs[i][2], prps)]
    IN  LiftAN(PropsFunction(prps, Len(pairs)), items)

\* validateObjectResult: the Validation folded into Result.Ok | Result.Error.
validateObjectResult(componentName, expected, prps) ==
    LET r == validateObject(componentName, expected, prps)
    IN  [tag |-> IF r.validation.isSuccess THEN "Ok" ELSE "Error",
         value |-> r.validation.value, errors |-> r.validation.failures,
         invoked |-> r.invoked, checked |-> Len(expected)]

\* vProps(propTypes, componentName, props)
vProps(expected, componentName, prps) ==
    LET result == validateObjectResult(componentName, expected, prps)
    IN  [outcome |-> Boundary("validatePropType", result), invoked |-> result.invoked,
         checked |-> result.checked]

RECURSIVE Split(_, _)
\* R.split(sep, text): the pieces of the text between the occurrences of sep.
Split(text, sep) ==
    IF \E i \in 1..Len(text) : text[i] = sep
    THEN LET at == CHOOSE i \in 1..Len(text) :
                      text[i] = sep /\ \A j \in 1..(i - 1) : text[j] # sep
         IN  <<SubSeq(text, 1, at - 1)>> \o Split(SubSeq(text, at + 1, Len(text)), sep)
    ELSE <<text>>

\* The token deleting the character before it.
Backspace == "<backspace>"

\* The tokens that begin with ', Stack'.
BeginsStack(token) == token = ", Stack: "

\* R.indexOf(', Stack', str): where the text first has ', Stack', else -1.
IndexOfStack(text) ==
    IF \E i \in 1..Len(text) : BeginsStack(text[i])
    THEN CHOOSE i \in 1..Len(text) :
            BeginsStack(text[i]) /\ \A j \in 1..(i - 1) : ~BeginsStack(text[j])
    ELSE -1

\* R.slice(0, R.indexOf(', Stack', str), str): the text before ', Stack';
\* with the index -1, the text without its last character.
SliceToStack(text) ==
    LET at == IndexOfStack(text)
    IN  IF at # -1 THEN SubSeq(text, 1, at - 1)
        ELSE IF text = <<>> THEN <<>>
        ELSE Append(text, Backspace)

NotExtracted == [status |-> "none", messages |-> <<>>]

\* expectValidationError(validatorCall), given what validatorCall() did: the
\* message of whatever it threw, split at '; ', each piece cut at ', Stack';
\* when it threw nothing, Error('No validation error occured') is thrown.
expectValidationError(thrown) ==
    IF thrown.status \in {"raised", "TypeError"}
    THEN LET strs == Split(thrown.message, "; ")
         IN  [status |-> "returned",
              messages |-> [i \in 1..Len(strs) |-> SliceToStack(strs[i])]]
    ELSE [status |-> "raised", messages |-> <<>>]

-----------------------------------------------------------------------------
(* Inputs of vProps *)

\* The shapes tried: up to MaxProps distinct names, in any declaration order.
Shapes ==
    {sh \in SeqsOf(PropNames \X PropTypes, MaxProps) :
        /\ sh # <<>>
        /\ \A i, j \in 1..Len(sh) : i # j => sh[i][1] # sh[j][1]}

PropValues == {Absent, Null, Str, Num(2)}

PropsObjects == [PropNames -> PropValues]

-----------------------------------------------------------------------------
(* Inputs of vMergeScope *)

ScopeKeys == {"user", "project"}
ScopeIds == {Num(1), Num(2)}

\* One scope entry, [key, value].
Pair(k, v) == <<k, v>>

\* Scopes: one or two distinct keys in either order, each with an id.
Scopes ==
    {<<Pair(k, v)>> : k \in ScopeKeys, v \in ScopeIds}
    \cup {sc \in {<<Pair(k1, v1), Pair(k2, v2)>> : k1 \in ScopeKeys, k2 \in ScopeKeys,
                                                  v1 \in ScopeIds, v2 \in ScopeIds} :
             sc[1][1] # sc[2][1]}

\* What an object holds under a scope key, and under its other key.
ScopedValues == {Absent, Undefined, Null, Num(1), Num(5), ObjId(1), ObjId(5), ObjNilId, Obj, Cyclic}
OtherValues == {Absent, Num(9), Cyclic}

Objects == {o \in [ObjKeys -> ScopedValues \cup OtherValues] :
              /\ o["aardvark"] \in OtherValues
              /\ o["user"] \in ScopedValues
              /\ o["project"] \in ScopedValues}

-----------------------------------------------------------------------------
(* Actions *)

\* The invocations that may be in progress at once on one wrapper.
Invocations == {1, 2}

\* An invocation not begun: held is what its current stage holds, supplied
\* every argument passed in it; forked marks one begun on another's stage.
NotStarted ==
    [status |-> "none", held |-> <<>>, supplied |-> <<>>, forked |-> FALSE,
     outcome |-> NoOutcome, invoked |-> 0]

NoInvocations == [i \in Invocations |-> NotStarted]

\* Before any call of vMergeScope.
NoneGiven == [scope |-> <<>>, objct |-> EmptyObject]

Init ==
    /\ pc = "idle"
    /\ op = "none"
    /\ func = [name |-> "func", length |-> 1, returns |-> "value"]
    /\ expectedItems = <<>>
    /\ received = <<>>
    /\ supplied = <<>>
    /\ calls = 0
    /\ funcCalls = 0
    /\ itemChecks = 0
    /\ scope = <<>>
    /\ objct = EmptyObject
    /\ given = NoneGiven
    /\ propTypes = <<>>
    /\ props = NoProps
    /\ extracted = NotExtracted
    /\ invocations = NoInvocations
    /\ outcome = NoOutcome

\* The expectation lists and argument lists tried.
TypeLists == SeqsOf(TypeSets, MaxExpected)
ArgLists == SeqsOf(ArgValues, MaxArgs) \ {<<>>}

\* A wrapper that compares the lengths when it is built.
WrapRaises_OnMismatch(f, expected) == f.length > CurryLimit \/ f.length # Len(expected)

\* R.curryN(func.length, ...) throws for a length above ten; nothing else is
\* evaluated when the wrapper is built.
WrapRaises(f, expected) == CurryRaises(f.length)

\* v(func, expectedItems, 'funky'): returns the curried wrapper, or lets the
\* Error of R.curryN escape.
Wrap(f, types) ==
    /\ pc' = IF WrapRaises(f, ExpectedItemsOf(types)) THEN "failed" ELSE "collecting"
    /\ outcome' = IF WrapRaises(f, ExpectedItemsOf(types)) THEN CurryError ELSE outcome
    /\ op' = "v"
    /\ func' = f
    /\ expectedItems' = ExpectedItemsOf(types)
    /\ UNCHANGED <<received, supplied, calls, funcCalls, itemChecks, scope, objct, given,
                   propTypes, props, extracted, invocations>>

\* One call, with arguments, of the wrapper or of the stage an earlier call
\* returned.  (A call without arguments returns an equivalent stage.)
Call(args) ==
    /\ Len(supplied) + Len(args) <= MaxArgs
    /\ LET combined == CurryCombine(received, args)
       IN  IF CurrySaturated(func.length, combined)
           THEN LET r == vComposed(func, expectedItems, "funky", combined)
                IN  /\ pc' = "done"
                    /\ received' = <<>>
                    /\ outcome' = r.outcome
                    /\ funcCalls' = funcCalls + r.invoked
                    /\ itemChecks' = itemChecks + r.checked
           ELSE /\ pc' = "collecting"
                /\ received' = combined
                /\ outcome' = [NoOutcome EXCEPT !.status = "stage"]
                /\ UNCHANGED <<funcCalls, itemChecks>>
    /\ supplied' = supplied \o args
    /\ calls' = calls + 1
    /\ UNCHANGED <<op, func, expectedItems, scope, objct, given, propTypes, props, extracted,
                   invocations>>

\* vMergeScope(scope, objct): scope and objct are the two objects as the
\* call leaves them.
MergeScope(sc, o) ==
    /\ LET r == vMergeScope(sc, o)
       IN  /\ outcome' = r.outcome
           /\ funcCalls' = funcCalls + r.invoked
           /\ itemChecks' = itemChecks + r.checked
           /\ scope' = r.scope
           /\ objct' = r.objct
    /\ given' = [scope |-> sc, objct |-> o]
    /\ pc' = "done"
    /\ op' = "vMergeScope"
    /\ UNCHANGED <<propTypes, props, extracted, invocations>>
    /\ UNCHANGED <<func, expectedItems, received, supplied, calls>>

\* vProps(propTypes, 'Snoopy', props)
Props(shape, prps) ==
    /\ LET r == vProps(shape, "Snoopy", prps)
       IN  /\ outcome' = r.outcome
           /\ funcCalls' = funcCalls + r.invoked
           /\ itemChecks' = itemChecks + r.checked
    /\ pc' = "done"
    /\ op' = "vProps"
    /\ propTypes' = shape
    /\ props' = prps
    /\ UNCHANGED <<func, expectedItems, received, supplied, calls, scope, objct, given,
                   extracted, invocations>>

\* The call just completed, made again as the validatorCall of
\* expectValidationError: on the same arguments it does again what it did.
ValidatorCall == [outcome |-> outcome, invoked |-> funcCalls, checked |-> itemChecks]

\* expectValidationError(() => <the call just completed>)
Expect ==
    /\ pc = "done"
    /\ LET r == ValidatorCall
       IN  /\ outcome' = r.outcome
           /\ funcCalls' = funcCalls + r.invoked
           /\ itemChecks' = itemChecks + r.checked
           /\ extracted' = expectValidationError(r.outcome)
    /\ pc' = "expected"
    /\ UNCHANGED <<op, func, expectedItems, received, supplied, calls, scope, objct, given,
                   propTypes, props, invocations>>

\* vMergeScope(scope, r), r being the object the call of vMergeScope just
\* completed returned.
MergeAgain ==
    /\ pc = "done" /\ op = "vMergeScope" /\ outcome.status = "returned"
    /\ \E sc \in {scope}, o \in {outcome.value.object} :
          /\ \E r \in {vMergeScope(sc, o)} :
                /\ outcome' = r.outcome
                /\ funcCalls' = funcCalls + r.invoked
                /\ itemChecks' = itemChecks + r.checked
                /\ scope' = r.scope
                /\ objct' = r.objct
          /\ given' = [scope |-> sc, objct |-> o]
    /\ pc' = "merged again"
    /\ UNCHANGED <<op, func, expectedItems, received, supplied, calls, propTypes, props,
                   extracted, invocations>>

\* The caller drops the wrapper or the result and starts afresh.
Reset ==
    /\ pc \in {"collecting", "done", "expected", "failed", "merged again"}
    /\ pc' = "idle"
    /\ op' = "none"
    /\ func' = [name |-> "func", length |-> 1, returns |-> "value"]
    /\ expectedItems' = <<>>
    /\ received' = <<>>
    /\ supplied' = <<>>
    /\ calls' = 0
    /\ funcCalls' = 0
    /\ itemChecks' = 0
    /\ scope' = <<>>
    /\ objct' = EmptyObject
    /\ given' = NoneGiven
    /\ propTypes' = <<>>
    /\ props' = NoProps
    /\ extracted' = NotExtracted
    /\ invocations' = NoInvocations
    /\ outcome' = NoOutcome

DoWrap == pc = "idle" /\ \E f \in Funcs, types \in TypeLists : Wrap(f, types)
DoCall == pc = "collecting" /\ \E args \in ArgLists : Call(args)
DoMergeScope == pc = "idle" /\ \E sc \in Scopes, o \in Objects : MergeScope(sc, o)
DoProps == pc = "idle" /\ \E shape \in Shapes, prps \in PropsObjects : Props(shape, prps)

Next == DoWrap \/ DoCall \/ DoMergeScope \/ MergeAgain \/ DoProps \/ Expect \/ Reset

Spec == Init /\ [][Next]_vars

-----------------------------------------------------------------------------
(* Interleaved invocations of one wrapper.  Every stage R.curryN returns is  *)
(* a function closed over its own array of held arguments; several callers  *)
(* may hold stages of the same wrapper, and one stage may be called more    *)
(* than once.                                                               *)

\* The arguments passed in interleaved invocations.
SharedArgLists == SeqsOf({Null, Str}, MaxArgs) \ {<<>>}

\* Stages that keep their arguments in one array shared by all of them.
CurryHeld_Shared(own, other) == IF Len(other) > Len(own) THEN other ELSE own

\* R.curryN: the arguments a stage holds when it is called are those it was
\* created with, whatever another stage holds.
CurryHeld(own, other) == own

\* The invocation other than i.
Other(i) == CHOOSE j \in Invocations : j # i

\* A call with arguments in invocation i: of the wrapper when the invocation
\* begins, else of the stage its last call returned.  An invocation passes
\* at most one argument more than func declares.
CallOn(i, args) ==
    /\ invocations[i].status \in {"none", "stage"}
    /\ Len(invocations[i].supplied) + Len(args) <= MaxArgs
    /\ Len(invocations[i].supplied) + Len(args) <= func.length + 1
    /\ LET held == CurryHeld(invocations[i].held, invocations[Other(i)].held)
           combined == CurryCombine(held, args)
           r == vComposed(func, expectedItems, "funky", combined)
       IN  invocations' =
               [invocations EXCEPT ![i] =
                   IF CurrySaturated(func.length, combined)
                   THEN [status |-> "done", held |-> <<>>,
                         supplied |-> invocations[i].supplied \o args,
                         forked |-> invocations[i].forked,
                         outcome |-> r.outcome, invoked |-> r.invoked]
                   ELSE [status |-> "stage", held |-> combined,
                         supplied |-> invocations[i].supplied \o args,
                         forked |-> invocations[i].forked,
                         outcome |-> [NoOutcome EXCEPT !.status = "stage"], invoked |-> 0]]
    /\ UNCHANGED <<pc, op, func, expectedItems, received, supplied, calls, funcCalls, itemChecks,
                   scope, objct, given, propTypes, props, extracted, outcome>>

\* A second caller takes the stage invocation i has reached: the same
\* partially applied function will be completed twice.
Fork(i) ==
    /\ invocations[i].status = "stage"
    /\ invocations[Other(i)].status = "none"
    /\ invocations' = [invocations EXCEPT ![Other(i)] =
                          [invocations[i] EXCEPT !.forked = TRUE]]
    /\ UNCHANGED <<pc, op, func, expectedItems, received, supplied, calls, funcCalls, itemChecks,
                   scope, objct, given, propTypes, props, extracted, outcome>>

\* The caller of invocation i drops what it holds; another may begin.
Discard(i) ==
    /\ invocations[i].status # "none"
    /\ invocations' = [invocations EXCEPT ![i] = NotStarted]
    /\ UNCHANGED <<pc, op, func, expectedItems, received, supplied, calls, funcCalls, itemChecks,
                   scope, objct, given, propTypes, props, extracted, outcome>>

DoCallOn == pc = "collecting" /\ \E i \in Invocations, args \in SharedArgLists : CallOn(i, args)
DoFork == pc = "collecting" /\ \E i \in Invocations : Fork(i)
DoDiscard == pc = "collecting" /\ \E i \in Invocations : Discard(i)

NextInterleaved == DoWrap \/ DoCallOn \/ DoFork \/ DoDiscard \/ Reset

SpecInterleaved == Init /\ [][NextInterleaved]_vars

-----------------------------------------------------------------------------
(* vMergeScope on scopes of any size: those above, and one of more keys     *)
(* than R.curryN supports, none of which the objects have.                  *)

WideScope == [i \in 1..(CurryLimit + 1) |-> Pair("k" \o ToString(i), Num(1))]

DoMergeAnyScope ==
    pc = "idle" /\ \E sc \in Scopes \cup {WideScope}, o \in Objects : MergeScope(sc, o)

NextScopes == DoMergeAnyScope \/ Reset

SpecScopes == Init /\ [][NextScopes]_vars

-----------------------------------------------------------------------------
(* Wrappers whose expectations are of every sort: an array of types, a      *)
(* PropTypes checker, a hand-written predicate returning the value it is    *)
(* asked about, and a value that is neither array nor function.             *)
(* vMergeScope, which drives the same engine, is called as well.            *)

Expectations ==
    {TypeArray(<<"Object", "String">>), PropTypeNumberRequired, EchoPredicate, NotAFunction}

\* The expectation lists tried: as long as the largest arity at most.
ExpectationLists == SeqsOf(Expectations, MaxArity)

\* The arguments passed to these wrappers.
PredicateArgLists == SeqsOf({Undefined, Null, Cyclic, Num(2)}, MaxArgs) \ {<<>>}

DoWrapAny == pc = "idle" /\ \E f \in Funcs, items \in ExpectationLists : Wrap(f, items)

\* A call passing, over the calls so far, at most one argument more than
\* func declares.
DoCallAny ==
    /\ pc = "collecting"
    /\ \E args \in PredicateArgLists :
          Len(supplied) + Len(args) <= func.length + 1 /\ Call(args)

NextPredicates == DoWrapAny \/ DoCallAny \/ DoMergeScope \/ Expect \/ Reset

SpecPredicates == Init /\ [][NextPredicates]_vars

-----------------------------------------------------------------------------
(* Vocabulary of the properties of the wrapper v *)

\* A call of the wrapper has completed.
Completed == pc = "done" /\ op = "v"

\* The expectations are as many as func's declared parameters.
ArityMatched == Len(expectedItems) = func.length

\* The value is an instance of one of the allowed types.
Fits(types, val) == \E i \in 1..Len(types) : val.kind = types[i]

\* Positions, among the first n, whose argument violates its expectation.
Violations(n) == {i \in 1..n : ~Fits(expectedItems[i][2].types, supplied[i])}

\* Exactly func.length arguments were passed to a wrapper whose arity matches.
ExactCall == Completed /\ ArityMatched /\ Len(supplied) = func.length

\* The text has the token.
HasToken(text, token) == \E i \in 1..Len(text) : text[i] = token

\* The i-th smallest element of a finite set of numbers.
RECURSIVE Sorted(_)
Sorted(S) ==
    IF S = {} THEN <<>>
    ELSE LET m == CHOOSE x \in S : \A y \in S : x <= y
         IN  <<m>> \o Sorted(S \ {m})

\* C1 (as claimed): every call with exactly N arguments that all satisfy
\* their expectations returns the value func returns for them.
C1_Original ==
    (ExactCall /\ Violations(func.length) = {})
        => (outcome.status = "returned" /\ outcome.value = FuncApply(func, supplied))

\* C1 (amended): a call with exactly N arguments that all satisfy their
\* expectations returns exactly the value func returns for them, and raises
\* nothing, whenever that value is not undefined.
C1_ReturnsFuncValue ==
    (ExactCall /\ Violations(func.length) = {} /\ FuncApply(func, supplied).defined)
        => (outcome.status = "returned" /\ outcome.value = FuncApply(func, supplied)
            /\ outcome.failures = <<>>)

C1_Witness ==
    /\ ExactCall /\ func.length >= 2 /\ Violations(func.length) = {}
    /\ outcome.status = "returned" /\ outcome.value.args = supplied
    /\ supplied[1] # supplied[2]

\* C2: a call with N arguments of which k >= 1 violate their expectations
\* raises one error holding exactly k rendered failures, one per violated
\* expectation, in the order of the expectations.
C2_AllFailuresRendered ==
    (ExactCall /\ Violations(func.length) # {})
        => LET bad == Sorted(Violations(func.length))
           IN  /\ outcome.status = "raised"
               /\ Len(outcome.failures) = Len(bad)
               /\ \A j \in 1..Len(bad) :
                     /\ Len(outcome.failures[j]) >= 4
                     /\ outcome.failures[j][3] = ", Requires "
                     /\ outcome.failures[j][4] = expectedItems[bad[j]][1]

\* The text of the failure for an arity that the expectations do not match.
IsMismatchText(text) ==
    /\ HasToken(text, " is not matched by validators' length ")
    /\ ~HasToken(text, ", Requires ")

\* C3 (as claimed): with expectations that differ in number from func's
\* arity, any call with arguments raises the single mismatch failure.
C3_Original ==
    (op = "v" /\ ~ArityMatched /\ calls >= 1)
        => (pc \in {"done", "expected"} /\ outcome.status = "raised"
            /\ Len(outcome.failures) = 1 /\ IsMismatchText(outcome.failures[1]))

\* C3 (amended): with expectations that differ in number from func's arity,
\* the call that brings the arguments passed so far to func's arity or more
\* raises exactly one mismatch failure and no type failure, whatever the
\* arguments; a call that leaves fewer than that returns a further stage and
\* raises nothing.
C3_MismatchOnceSaturated ==
    (op = "v" /\ ~ArityMatched /\ calls >= 1)
        => IF Len(supplied) >= func.length
           THEN /\ pc \in {"done", "expected"} /\ outcome.status = "raised" /\ funcCalls = 0
                /\ Len(outcome.failures) = 1 /\ IsMismatchText(outcome.failures[1])
           ELSE pc = "collecting" /\ outcome.status = "stage"

C3_Witness ==
    /\ Completed /\ ~ArityMatched /\ Len(supplied) = Len(expectedItems)
    /\ Violations(Len(supplied)) # {}
    /\ outcome.status = "raised" /\ IsMismatchText(outcome.failures[1])

\* C4: when the arity matches the N expectations and the call that triggers
\* validation has brought a number of arguments other than N, the call
\* raises the single wrong-number failure, reports no argument failure and
\* does not invoke func.
C4_WrongNumberOfArguments ==
    (Completed /\ ArityMatched /\ Len(supplied) # func.length)
        => /\ outcome.status = "raised" /\ funcCalls = 0
           /\ Len(outcome.failures) = 1
           /\ HasToken(outcome.failures[1], " wrong number of arguments ")
           /\ HasToken(outcome.failures[1], ToString(Len(supplied)))
           /\ ~HasToken(outcome.failures[1], ", Requires ")

C4_Witness ==
    /\ Completed /\ ArityMatched /\ Len(supplied) > func.length
    /\ Violations(func.length) # {}
    /\ outcome.status = "raised"
    /\ HasToken(outcome.failures[1], " wrong number of arguments ")

\* C5: the outcome of passing N arguments is the outcome of the single call
\* with all of them, however they were split over successive calls.
C5_SplitIndependent ==
    Completed
        => LET oneCall == vComposed(func, expectedItems, "funky", supplied)
           IN  outcome = oneCall.outcome /\ funcCalls = oneCall.invoked

C5_Witness ==
    /\ ExactCall /\ func.length >= 2 /\ calls = func.length
    /\ supplied[1] # supplied[2]
    /\ outcome.status = "raised"

\* C6: when every argument satisfies its expectation and func returns
\* undefined, the call raises the single undefined-value failure instead of
\* returning undefined.
C6_UndefinedPayloadRaises ==
    (ExactCall /\ Violations(func.length) = {} /\ ~FuncApply(func, supplied).defined)
        => /\ outcome.status = "raised"
           /\ Len(outcome.failures) = 1
           /\ HasToken(outcome.failures[1], " unacceptable undefined returned value ")

C6_Witness ==
    /\ ExactCall /\ Violations(func.length) = {} /\ func.returns = "undefined"
    /\ outcome.status = "raised" /\ funcCalls = 1

-----------------------------------------------------------------------------
(* Vocabulary of the properties of vMergeScope *)

\* A call of vMergeScope has completed.
Merged == pc = "done" /\ op = "vMergeScope"

ScopeKeySet == {scope[i][1] : i \in 1..Len(scope)}

\* The value is an object with an id property (of whatever value).
HasIdField(val) == val.kind = "Object" /\ val.idk # "absent"

\* The value said to be compared with the scope's: the id of an object with a
\* non-nil id; the id, null, of an object whose id is null when nilIdToo;
\* else the value itself.
Compared(val, nilIdToo) ==
    IF val.kind = "Object" /\ val.idk = "num" THEN Num(val.n)
    ELSE IF nilIdToo /\ val.kind = "Object" /\ val.idk = "nil" THEN Null
    ELSE val

\* Scope entry i does not validate: the id of an object with an id field
\* differs from the scope's value, or a value without one is present and
\* differs from it.
KeyFails(i, nilIdToo) ==
    LET raw == Get(objct, scope[i][1])
        val == Compared(raw, nilIdToo)
    IN  IF HasIdField(raw) THEN val # scope[i][2]
        ELSE val.kind \notin {"undefined", "null"} /\ val # scope[i][2]

FailingKeys(nilIdToo) == Sorted({i \in 1..Len(scope) : KeyFails(i, nilIdToo)})

\* The message for scope entry i, naming the key, the scope's value and the
\* compared value.
FailureText(i, nilIdToo) ==
    ObjectJSON(objct) \o <<", Requires ", scope[i][1], " to equal ">>
    \o JSONstringify(scope[i][2]) \o <<", but got ">>
    \o JSONstringify(Compared(Get(objct, scope[i][1]), nilIdToo)) \o <<", Stack: ", Stack>>

\* The property a message names.
PropNamed(text) == text[(CHOOSE i \in 1..Len(text) : text[i] = ", Requires ") + 1]

\* C7: a successful vMergeScope returns an object with exactly the keys of
\* obj and scope; scope's value under every scope key, obj's value under
\* every other key.
C7_MergedScopeWins ==
    (Merged /\ outcome.status = "returned")
        => LET r == outcome.value.object
           IN  /\ OwnKeys(r) = OwnKeys(objct) \cup ScopeKeySet
               /\ \A i \in 1..Len(scope) : r[scope[i][1]] = scope[i][2]
               /\ \A k \in OwnKeys(objct) \ ScopeKeySet : r[k] = objct[k]

C7_Witness ==
    /\ Merged /\ outcome.status = "returned" /\ Len(scope) = 2
    /\ objct[scope[1][1]] = ObjId(scope[1][2].n)
    /\ objct[scope[2][1]] = Absent
    /\ objct["aardvark"] = Num(9)
    /\ outcome.value.object[scope[1][1]] = scope[1][2]

ComparesAs(nilIdToo) ==
    Merged
        => /\ outcome.status = "returned" <=> FailingKeys(nilIdToo) = <<>>
           /\ outcome.status = "raised"
              => outcome.failures = [j \in 1..Len(FailingKeys(nilIdToo)) |->
                                       FailureText(FailingKeys(nilIdToo)[j], nilIdToo)]

\* C9 (as claimed): for an object with an id field the id is what is
\* compared and reported.
C9_Original == ComparesAs(TRUE)

\* C9 (amended): for an object with an id field whose value is not null or
\* undefined the id is compared with the scope's value and reported on
\* failure; a value without an id field, or an object whose id is nil, is
\* compared and reported as it is.
C9_IdCompared == ComparesAs(FALSE)

C9_Witness ==
    /\ Merged /\ Len(scope) = 2 /\ outcome.status = "raised"
    /\ objct[scope[1][1]] = ObjId(5)
    /\ objct[scope[2][1]] = ObjNilId
    /\ Len(outcome.failures) = 2

\* C10: when m >= 1 scope keys have a present compared value that differs
\* from the scope's, vMergeScope raises an error of exactly m messages, one
\* per such key in scope order, each naming the key, the scope's value and
\* the actual value.
C10_AllMismatchesReported ==
    (Merged /\ FailingKeys(FALSE) # <<>>)
        => /\ outcome.status = "raised"
           /\ Len(outcome.failures) = Len(FailingKeys(FALSE))
           /\ \A j \in 1..Len(FailingKeys(FALSE)) :
                 outcome.failures[j] = FailureText(FailingKeys(FALSE)[j], FALSE)

\* C11: vMergeScope is all-or-nothing.  When at least one scope key fails,
\* the merge function is never invoked, no object is returned and an error is
\* raised; an object is returned only when no scope key fails, after exactly
\* one invocation of the merge function, and it has every scope key.
C11_AllOrNothing ==
    Merged
        => /\ FailingKeys(FALSE) # <<>>
              => /\ funcCalls = 0
                 /\ outcome.status \in {"raised", "TypeError"}
                 /\ outcome.value = NoResult
           /\ outcome.status = "returned"
              => /\ FailingKeys(FALSE) = <<>>
                 /\ funcCalls = 1
                 /\ ScopeKeySet \subseteq OwnKeys(outcome.value.object)

C11_Witness ==
    /\ Merged /\ Len(scope) = 2
    /\ objct[scope[1][1]] = ObjId(scope[1][2].n)
    /\ KeyFails(2, FALSE)
    /\ outcome.status = "raised" /\ Len(outcome.failures) = 1
    /\ funcCalls = 0

\* C12: vMergeScope leaves obj and scope as they were, whether it returns or
\* raises: after the call each holds the keys and values it was passed with,
\* and a returned object is a new one, neither obj nor scope.
C12_ArgumentsUnchanged ==
    Merged
        => /\ objct = given.objct
           /\ scope = given.scope
           /\ outcome.status = "returned" => outcome.value.ref = "fresh"

C12_Witness ==
    /\ Merged /\ outcome.status = "returned" /\ funcCalls = 1
    /\ Len(scope) = 2
    /\ objct[scope[1][1]] = ObjId(scope[1][2].n)
    /\ objct[scope[2][1]] = Absent
    /\ outcome.value.object # objct
    /\ objct = given.objct

-----------------------------------------------------------------------------
(* Vocabulary of the properties of vProps *)

\* A call of vProps has completed.
PropsDone == pc = "done" /\ op = "vProps"

\* The property declared i-th in the shape passes its predicate: it has one,
\* and the value is of its type, or is nil and the property is optional.
Passes(i) ==
    LET propType == propTypes[i][2]
        val == Get(props, propTypes[i][1])
    IN  /\ propType.fn
        /\ IF val.kind \in {"undefined", "null"} THEN ~propType.required
           ELSE val.kind = propType.kind

\* The declared positions of the properties that fail, in declaration order.
FailingProps == Sorted({i \in 1..Len(propTypes) : ~Passes(i)})

C14_FailuresInDeclarationOrder ==
    (PropsDone /\ FailingProps # <<>>)
        => /\ outcome.status = "raised"
           /\ Len(outcome.failures) = Len(FailingProps)
           /\ \A j \in 1..Len(FailingProps) :
                 /\ outcome.failures[j][2] = propTypes[FailingProps[j]][1]
                 /\ outcome.failures[j][4] = "Snoopy"

-----------------------------------------------------------------------------
(* Vocabulary of the properties of expectValidationError *)

\* expectValidationError has run a call that raised a validation error.
ExpectedRaised == pc = "expected" /\ outcome.status = "raised"

\* The two texts agree as far as the shorter goes.
Agree(m, f) == \A i \in 1..(IF Len(m) < Len(f) THEN Len(m) ELSE Len(f)) : m[i] = f[i]

\* C15: for a call raising a validation error built from k failure
\* descriptors, expectValidationError returns exactly k messages, the j-th
\* being the beginning of the j-th rendered failure, whatever the actual
\* values are.
C15_OneMessagePerFailure ==
    ExpectedRaised
        => /\ extracted.status = "returned"
           /\ Len(extracted.messages) = Len(outcome.failures)
           /\ \A j \in 1..Len(outcome.failures) :
                 /\ extracted.messages[j] # <<>>
                 /\ Agree(extracted.messages[j], outcome.failures[j])

-----------------------------------------------------------------------------
(* Properties of the engine, seen through the wrapper v *)

\* C16: func is invoked iff the arity matches the expectations, exactly that
\* many arguments were passed and every one satisfies its expectation; it is
\* then invoked exactly once, with the actual arguments in order.  With a
\* failing argument, a wrong number of arguments or an arity mismatch, and
\* while arguments are still awaited, it is not invoked.
C16_FuncInvokedIffAllSucceed ==
    /\ (op = "v" /\ pc = "collecting") => funcCalls = 0
    /\ Completed
          => /\ funcCalls = IF ExactCall /\ Violations(func.length) = {} THEN 1 ELSE 0
             /\ (funcCalls = 1 /\ func.returns = "value") => outcome.value.args = supplied

C16_Witness ==
    /\ ExactCall /\ func.length = 2 /\ calls = 2
    /\ Violations(func.length) = {}
    /\ funcCalls = 1
    /\ func.returns = "value" /\ outcome.value.args = supplied
    /\ supplied[1].kind # supplied[2].kind

\* Building the wrapper raised nothing and returned a callable, on which no
\* failure exists before it is called with arguments.
WrapDeferred ==
    /\ pc # "failed"
    /\ calls = 0 => (pc = "collecting" /\ outcome.status = "none" /\ funcCalls = 0)
    /\ outcome.status = "raised" => (pc \in {"done", "expected"} /\ calls >= 1)

\* C17 (as claimed): wrapping never raises, for every func and expectation
\* list.
C17_Original == op = "v" => WrapDeferred

\* C17 (amended): for every func of at most ten declared parameters and
\* every expectation list, of the same length as func's arity or not, v
\* raises nothing and returns a callable; a mismatch failure exists only
\* after that callable was called with arguments.
C17_WrapReturnsCallable == (op = "v" /\ func.length <= CurryLimit) => WrapDeferred

C17_Witness ==
    /\ op = "v" /\ pc = "collecting" /\ calls = 0
    /\ ~ArityMatched /\ func.length <= CurryLimit
    /\ outcome.status = "none"

\* C18: while the arguments passed to a wrapper are fewer than func's arity
\* N, every call returns a further stage: no item validator has run, func
\* was not invoked and no error was raised, even when an argument already
\* passed violates its expectation.
C18_NothingBeforeSaturation ==
    (op = "v" /\ pc # "failed" /\ calls >= 1 /\ Len(supplied) < func.length)
        => /\ pc = "collecting"
           /\ received = supplied
           /\ outcome.status = "stage" /\ outcome.failures = <<>>
           /\ itemChecks = 0
           /\ funcCalls = 0

C18_Witness ==
    /\ op = "v" /\ pc = "collecting" /\ calls = 1
    /\ func.length = 2 /\ ArityMatched /\ Len(supplied) = 1
    /\ Violations(1) = {1}
    /\ outcome.status = "stage" /\ itemChecks = 0

-----------------------------------------------------------------------------
(* Properties of interleaved invocations (SpecInterleaved) *)

\* C19: however the calls of two invocations of one wrapper are interleaved,
\* two completions of one partially applied stage included, each invocation
\* is where it would be alone: a stage holds exactly the arguments passed in
\* its own invocation, and a completed invocation has the outcome of the
\* single call with its own arguments, func having been invoked as in that
\* call and with those arguments only.
C19_InvocationsIndependent ==
    \A i \in Invocations :
        /\ invocations[i].status = "stage"
              => /\ invocations[i].held = invocations[i].supplied
                 /\ Len(invocations[i].supplied) < func.length
        /\ invocations[i].status = "done"
              => LET alone == vComposed(func, expectedItems, "funky", invocations[i].supplied)
                 IN  /\ invocations[i].outcome = alone.outcome
                     /\ invocations[i].invoked = alone.invoked
                     /\ (alone.outcome.status = "returned" /\ func.returns = "value")
                           => invocations[i].outcome.value.args = invocations[i].supplied

C19_Witness ==
    /\ func.length = 2 /\ ArityMatched /\ func.returns = "value"
    /\ invocations[1].status = "done" /\ invocations[2].status = "done"
    /\ invocations[2].forked
    /\ invocations[1].supplied = <<Str, Null>>
    /\ invocations[2].supplied = <<Str, Str>>
    /\ invocations[1].outcome.status = "raised"
    /\ invocations[2].outcome.status = "returned"

-----------------------------------------------------------------------------
(* Properties of the item validators *)

\* What validateArgument returned for the i-th argument of the call.
ArgumentOutcome(i) ==
    validateArgument("funky", expectedItems[i][1], expectedItems[i][2], supplied[i])

\* C20: for an expectation that is an array of types T, validateArgument
\* returns a Success carrying the actual value iff the value is an instance
\* of one of the types of T; otherwise a Failure of exactly one descriptor,
\* which carries the label, the argument's name, the whole of T and the
\* actual value.
C20_TypeSetStrategy ==
    (ExactCall /\ itemChecks = func.length)
        => \A i \in 1..func.length :
              IF Fits(expectedItems[i][2].types, supplied[i])
              THEN ArgumentOutcome(i) = Success(supplied[i])
              ELSE /\ ~ArgumentOutcome(i).isSuccess
                   /\ Len(ArgumentOutcome(i).failures) = 1
                   /\ ArgumentOutcome(i).failures[1].hasTypes
                   /\ ArgumentOutcome(i).failures[1].funcName = "funky"
                   /\ ArgumentOutcome(i).failures[1].name = expectedItems[i][1]
                   /\ ArgumentOutcome(i).failures[1].types = expectedItems[i][2].types
                   /\ ArgumentOutcome(i).failures[1].actual = supplied[i]

C20_Witness ==
    /\ ExactCall /\ func.length = 2 /\ itemChecks = 2
    /\ expectedItems[1][2].types = <<"Object", "String">> /\ supplied[1] = Str
    /\ expectedItems[2][2].types = <<"Object", "String">> /\ supplied[2] = Null
    /\ outcome.status = "raised" /\ Len(outcome.failures) = 1
    /\ HasToken(outcome.failures[1], "ret")

-----------------------------------------------------------------------------
(* Properties of the predicate strategy *)

\* The name and the expectation of the i-th item.
NameOf(i) == expectedItems[i][1]
ExpectationOf(i) == expectedItems[i][2]

\* Every item of the call was validated: the wrapper's arity matches its
\* expectations and exactly that many arguments were passed.
ItemsValidated == ExactCall /\ itemChecks = func.length

\* What the i-th predicate returns when it is handed {name: actual}, the name
\* and the label.
PredicateReturn(i) ==
    PropTypeCheck(ExpectationOf(i), Singleton(NameOf(i), supplied[i]), NameOf(i), "funky")

\* The rendered failure of an item whose error has the message.
ErrorText(message) == <<"Error: ">> \o message \o <<", Stack: ", Stack>>

\* C21: an expectation that is a predicate is applied to {name: actual}, the
\* name and the label; when it returns an Error the item is a Failure of one
\* descriptor whose message is that Error's message, which the raised error
\* lists; otherwise the item is a Success carrying the actual value, not what
\* the predicate returned, and func receives the actual values.
C21_PredicateStrategy ==
    ItemsValidated
        => /\ \A i \in 1..func.length :
                 ExpectationOf(i).fn
                     => IF PredicateReturn(i).kind = "Error"
                        THEN /\ ~ArgumentOutcome(i).isSuccess
                             /\ Len(ArgumentOutcome(i).failures) = 1
                             /\ ArgumentOutcome(i).failures[1].message
                                    = PredicateReturn(i).message
                             /\ outcome.status = "raised"
                             /\ \E j \in 1..Len(outcome.failures) :
                                    outcome.failures[j] = ErrorText(PredicateReturn(i).message)
                        ELSE ArgumentOutcome(i) = Success(supplied[i])
           /\ (funcCalls = 1 /\ outcome.status = "returned")
                 => outcome.value.args = supplied

C21_Witness ==
    /\ ItemsValidated /\ func.length = 2
    /\ ExpectationOf(1) = PropTypeNumberRequired /\ supplied[1] = Num(2)
    /\ ExpectationOf(2) = PropTypeNumberRequired /\ supplied[2] = Null
    /\ outcome.status = "raised" /\ Len(outcome.failures) = 1
    /\ HasToken(outcome.failures[1], " is marked as required in ")
    /\ HasToken(outcome.failures[1], "ret")

\* The i-th expectation is neither an array nor a function.
Malformed(i) == ~ExpectationOf(i).array /\ ~ExpectationOf(i).fn

\* The i-th item fails: its argument is of none of the types, its predicate
\* returns an Error, or its expectation is malformed.
ItemFails(i) ==
    CASE ExpectationOf(i).array -> ~Fits(ExpectationOf(i).types, supplied[i])
      [] ExpectationOf(i).fn -> PredicateReturn(i).kind = "Error"
      [] OTHER -> TRUE

\* The positions of the failing items, in expectation order.
FailingItems == Sorted({i \in 1..func.length : ItemFails(i)})

MalformedMessage == <<"TypeChecker should be a function">>

\* C22: when an expectation is neither an array nor a function, the call
\* raises the validation error and nothing else; the item is a Failure of one
\* descriptor with the message 'TypeChecker should be a function', listed at
\* its place among the failures of all the items, which are in expectation
\* order; and func is not invoked.
C22_MalformedExpectation ==
    (ItemsValidated /\ \E i \in 1..func.length : Malformed(i))
        => /\ outcome.status = "raised"
           /\ funcCalls = 0
           /\ Len(outcome.failures) = Len(FailingItems)
           /\ \A j \in 1..Len(FailingItems) :
                 LET i == FailingItems[j]
                 IN  /\ Malformed(i)
                        => /\ ArgumentOutcome(i).isSuccess = FALSE
                           /\ Len(ArgumentOutcome(i).failures) = 1
                           /\ ArgumentOutcome(i).failures[1].message = MalformedMessage
                           /\ outcome.failures[j] = ErrorText(MalformedMessage)
                     /\ ExpectationOf(i).array
                        => /\ HasToken(outcome.failures[j], ", Requires ")
                           /\ HasToken(outcome.failures[j], NameOf(i))
                     /\ ExpectationOf(i).fn
                        => outcome.failures[j] = ErrorText(PredicateReturn(i).message)

C22_Witness ==
    /\ ItemsValidated /\ func.length = 2
    /\ ExpectationOf(1) = TypeArray(<<"Object", "String">>) /\ supplied[1] = Num(2)
    /\ Malformed(2) /\ supplied[2] = Cyclic
    /\ outcome.status = "raised" /\ funcCalls = 0 /\ Len(outcome.failures) = 2
    /\ HasToken(outcome.failures[1], "type")
    /\ outcome.failures[2] = ErrorText(MalformedMessage)

-----------------------------------------------------------------------------
(* Properties of the rendering of failures *)

\* C23: rendering a failure never throws.  Whatever the actual values, a
\* cyclic object included, a wrapped call with an argument violating its
\* type array, and a vMergeScope call with a failing scope key, raise the
\* validation error listing the failures, and no other error.
C23_RenderingNeverThrows ==
    ((ExactCall /\ Violations(func.length) # {}) \/ (Merged /\ FailingKeys(FALSE) # <<>>))
        => (outcome.status = "raised" /\ outcome.failures # <<>>)

-----------------------------------------------------------------------------
(* Properties of the engine's Failure outcomes *)

\* The Validation validateItems returned in the call just completed, of the
\* wrapper or of vMergeScope.
EngineOutcome ==
    IF op = "vMergeScope"
    THEN validateItems(MergeFunction(given.scope, given.objct), given.scope, "validateProp",
                       given.objct, "[object Object]",
                       ToValues(given.objct, Keys(given.scope))).validation
    ELSE validateItems(func, expectedItems, "validateArgument", "funky", "funky",
                       supplied).validation

\* The names in the descriptors of a Failure, in order.
NamesIn(failures) == [j \in 1..Len(failures) |-> failures[j].name]

\* C24: every Failure the engine produces carries at least one descriptor.
\* The failures for an arity the expectations do not match, for a wrong number
\* of arguments and for an undefined payload carry exactly one; the Failure
\* of one item carries one; a folded Failure carries one descriptor per
\* failing item, in expectation order.  The error raised renders each.
C24_FailuresNonEmpty ==
    ((Completed \/ Merged) /\ ~EngineOutcome.isSuccess)
        => /\ Len(EngineOutcome.failures) >= 1
           /\ outcome.status = "raised"
                 => Len(outcome.failures) = Len(EngineOutcome.failures)
           /\ (Completed /\ ~ArityMatched)
                 => /\ Len(EngineOutcome.failures) = 1
                    /\ IsMismatchText(EngineOutcome.failures[1].message)
           /\ (Completed /\ ArityMatched /\ Len(supplied) # func.length)
                 => /\ Len(EngineOutcome.failures) = 1
                    /\ HasToken(EngineOutcome.failures[1].message, " wrong number of arguments ")
           /\ (ItemsValidated /\ FailingItems = <<>>)
                 => /\ Len(EngineOutcome.failures) = 1
                    /\ HasToken(EngineOutcome.failures[1].message,
                                " unacceptable undefined returned value ")
           /\ (ItemsValidated /\ FailingItems # <<>>)
                 => /\ NamesIn(EngineOutcome.failures)
                          = [j \in 1..Len(FailingItems) |-> NameOf(FailingItems[j])]
                    /\ \A j \in 1..Len(FailingItems) :
                          /\ ~ArgumentOutcome(FailingItems[j]).isSuccess
                          /\ ArgumentOutcome(FailingItems[j]).failures
                                = <<EngineOutcome.failures[j]>>
           /\ Merged
                 => NamesIn(EngineOutcome.failures)
                       = [j \in 1..Len(FailingKeys(FALSE)) |-> scope[FailingKeys(FALSE)[j]][1]]

C24_Witness ==
    /\ ItemsValidated /\ func.length = 2
    /\ ExpectationOf(1) = PropTypeNumberRequired /\ supplied[1] = Undefined
    /\ ExpectationOf(2) = TypeArray(<<"Object", "String">>) /\ supplied[2] = Num(2)
    /\ NamesIn(EngineOutcome.failures) = <<"type", "ret">>
    /\ outcome.status = "raised" /\ Len(outcome.failures) = 2

-----------------------------------------------------------------------------
(* Properties of repeated and of well-formed calls of vMergeScope *)

\* The names of the failing scope keys, in scope order.
FailingKeyNames == [j \in 1..Len(FailingKeys(FALSE)) |-> scope[FailingKeys(FALSE)[j]][1]]

\* What vMergeScope raised came from scope values that differ: some scope
\* key fails, and the engine's Failure holds one descriptor per failing key
\* and nothing else.
OnlyScopeMismatches ==
    /\ FailingKeys(FALSE) # <<>>
    /\ outcome.status \in {"raised", "TypeError"}
    /\ ~EngineOutcome.isSuccess
    /\ NamesIn(EngineOutcome.failures) = FailingKeyNames
    /\ \A j \in 1..Len(EngineOutcome.failures) :
          /\ EngineOutcome.failures[j].expected = scope[FailingKeys(FALSE)[j]][2]
          /\ EngineOutcome.failures[j].message = <<"Validation error">>

\* C28 (as claimed): for every scope of at least one key and every object,
\* whatever vMergeScope raises is a failure of scope values that differ.
C28_Original ==
    (Merged /\ outcome.status # "returned") => OnlyScopeMismatches

\* C28 (amended): for every scope of one to ten keys and every object, the
\* merge function's arity, the number of expectations and the number of
\* actual values are the number of scope keys and the merge is an object: the
\* call returns when no scope key fails, and whatever it raises is a failure
\* of scope values that differ, never one for the arity, for the number of
\* arguments or for an undefined payload.
C28_OnlyScopeMismatches ==
    (Merged /\ Len(scope) >= 1 /\ Len(scope) <= CurryLimit)
        => /\ LengthsMatch(MergeFunction(scope, given.objct), scope, Len(scope))
           /\ ~WrongNumber(ToValues(given.objct, Keys(scope)), scope)
           /\ FuncApply(MergeFunction(scope, given.objct), <<>>).defined
           /\ FailingKeys(FALSE) = <<>> => (outcome.status = "returned" /\ funcCalls = 1)
           /\ outcome.status # "returned" => OnlyScopeMismatches

C28_Witness ==
    /\ Merged /\ Len(scope) = 2
    /\ objct[scope[1][1]] = Absent
    /\ objct[scope[2][1]] = Num(5)
    /\ outcome.status = "raised" /\ Len(outcome.failures) = 1
    /\ FailingKeyNames = <<scope[2][1]>>

\* vMergeScope has been called again, on the object its first call returned.
MergedAgain == pc = "merged again"

\* C25: whenever vMergeScope(scope, obj) returns r, vMergeScope(scope, r)
\* returns as well, raising nothing, and what it returns equals r; r itself is
\* left as it was.
C25_MergeScopeIdempotent ==
    MergedAgain
        => /\ outcome.status = "returned"
           /\ outcome.value.object = given.objct
           /\ objct = given.objct
           /\ funcCalls = 2

C25_Witness ==
    /\ MergedAgain /\ Len(scope) = 2
    /\ \A i \in 1..2 : given.objct[scope[i][1]] = scope[i][2]
    /\ given.objct["aardvark"] = Cyclic
    /\ outcome.status = "returned" /\ outcome.value.object = given.objct

-----------------------------------------------------------------------------
(* Properties of the texts expectValidationError returns *)

\* The pieces of the raised message, as expectValidationError splits it.
Pieces == Split(outcome.message, "; ")

\* The text has the marker ', Stack'.
HasStackMarker(text) == \E i \in 1..Len(text) : BeginsStack(text[i])

\* C26: expectValidationError removes the appended stack text and nothing
\* else.  Where the pieces of the raised message are the rendered failures,
\* a rendered failure that has ', Stack: ...' is returned up to that marker,
\* and one that has no ', Stack' marker is returned whole, with no character
\* removed.
C26_OnlyStackStripped ==
    (ExpectedRaised /\ Pieces = outcome.failures)
        => /\ extracted.status = "returned"
           /\ Len(extracted.messages) = Len(outcome.failures)
           /\ \A j \in 1..Len(outcome.failures) :
                 IF HasStackMarker(outcome.failures[j])
                 THEN extracted.messages[j]
                         = SubSeq(outcome.failures[j], 1, IndexOfStack(outcome.failures[j]) - 1)
                 ELSE extracted.messages[j] = outcome.failures[j]

-----------------------------------------------------------------------------
(* Properties of null and undefined arguments *)

\* The positions at which an argument was passed for an expectation that is
\* an array of types, and is null or undefined.
NilForTypes ==
    {i \in 1..Len(expectedItems) :
        /\ i <= Len(supplied)
        /\ ExpectationOf(i).array
        /\ supplied[i].kind \in {"undefined", "null"}}

\* C27: null and undefined are instances of none of the types of any type
\* array, one holding Object included: the item of such an argument is a
\* Failure, so a call passing null or undefined for an argument expected by
\* type array never invokes func and returns nothing.
C27_NilFailsEveryTypeSet ==
    (Completed /\ NilForTypes # {})
        => /\ funcCalls = 0
           /\ outcome.status = "raised"
           /\ \A i \in NilForTypes :
                 /\ \A k \in 1..Len(ExpectationOf(i).types) :
                       ~R_is(ExpectationOf(i).types[k], supplied[i])
                 /\ ~ArgumentOutcome(i).isSuccess
                 /\ ItemsValidated
                       => \E j \in 1..Len(outcome.failures) :
                             /\ HasToken(outcome.failures[j], ", Requires ")
                             /\ HasToken(outcome.failures[j], NameOf(i))
                             /\ HasToken(outcome.failures[j], supplied[i].kind)

C27_Witness ==
    /\ ItemsValidated /\ func.length = 2
    /\ ExpectationOf(1) = TypeArray(<<"Object", "String">>) /\ supplied[1] = Undefined
    /\ ExpectationOf(2) = TypeArray(<<"Object", "String">>) /\ supplied[2] = Null
    /\ funcCalls = 0 /\ outcome.status = "raised" /\ Len(outcome.failures) = 2

-----------------------------------------------------------------------------
(* Properties of what a predicate returns *)

\* The items whose expectation is a predicate.
PredicateItems == {i \in 1..func.length : ExpectationOf(i).fn}

\* C29: under the predicate strategy an item is a Failure only when the
\* predicate returns an instance of Error.  Whatever else it returns
\* (undefined, null, a number, a plain object) the item is a Success, and when
\* no item fails func is invoked with the actual values.
C29_FailureOnlyOnError ==
    ItemsValidated
        => /\ \A i \in PredicateItems :
                 ArgumentOutcome(i).isSuccess <=> PredicateReturn(i).kind # "Error"
           /\ (\A i \in 1..func.length :
                  \/ i \in PredicateItems /\ PredicateReturn(i).kind # "Error"
                  \/ ExpectationOf(i).array /\ Fits(ExpectationOf(i).types, supplied[i]))
                 => /\ funcCalls = 1
                    /\ func.returns = "value"
                          => (outcome.status = "returned" /\ outcome.value.args = supplied)

C29_Witness ==
    /\ ItemsValidated /\ func.length = 2 /\ func.returns = "value"
    /\ ExpectationOf(1) = EchoPredicate /\ supplied[1] = Cyclic
    /\ PredicateReturn(1).kind = "Object"
    /\ ExpectationOf(2) = PropTypeNumberRequired /\ supplied[2] = Num(2)
    /\ PredicateReturn(2).kind = "null"
    /\ funcCalls = 1 /\ outcome.status = "returned" /\ outcome.value.args = supplied

-----------------------------------------------------------------------------
(* Properties of the invocations of func in calls that raise *)

\* A call of the wrapper has completed by raising.
CompletedRaising == Completed /\ outcome.status \in {"raised", "TypeError"}

\* C30: how often func has been invoked when a call of the wrapper raises
\* depends on the failure.  Never, when the expectations do not match func's
\* arity, when the number of arguments is wrong, and when an item fails
\* (an argument of none of the types, a predicate returning an Error, a
\* malformed expectation); exactly once when every item passes and the error
\* is the one for func's undefined return value.
C30_InvocationsByFailure ==
    CompletedRaising
        => /\ ~ArityMatched
                 => /\ funcCalls = 0
                    /\ IsMismatchText(outcome.failures[1])
           /\ (ArityMatched /\ Len(supplied) # func.length)
                 => /\ funcCalls = 0
                    /\ HasToken(outcome.failures[1], " wrong number of arguments ")
           /\ (ItemsValidated /\ FailingItems # <<>>)
                 => /\ funcCalls = 0
                    /\ Len(outcome.failures) = Len(FailingItems)
           /\ (ItemsValidated /\ FailingItems = <<>>)
                 => /\ funcCalls = 1
                    /\ func.returns = "undefined"
                    /\ Len(outcome.failures) = 1
                    /\ HasToken(outcome.failures[1], " unacceptable undefined returned value ")
           /\ ~ItemsValidated => itemChecks = 0

C30_Witness ==
    /\ CompletedRaising /\ ItemsValidated /\ func.length = 2
    /\ ExpectationOf(1) = PropTypeNumberRequired /\ supplied[1] = Num(2)
    /\ ExpectationOf(2) = EchoPredicate /\ supplied[2] = Undefined
    /\ FailingItems = <<>> /\ func.returns = "undefined"
    /\ funcCalls = 1 /\ Len(outcome.failures) = 1

====
